---------------------------- MODULE Spec2Model ----------------------------
(***************************************************************************)
(* A model of eFFORT's B -> D form factor classes (src/eFFORT/BToD.py):    *)
(* the base class BToD, its CLN and BGL variants, and a client that        *)
(* constructs models and calls G, fplus, phi_plus and dGamma_dw on them.   *)
(*                                                                         *)
(* Numbers.  The code computes with Python floats and numpy float64.  The  *)
(* model computes with exact real numbers of the form                      *)
(*     sign * prod(atom ^ (exp / 2))                                       *)
(* where the atoms are primes and the two symbolic constants pi and G_F,   *)
(* and keeps what Python and numpy add to the reals: nan, inf, complex     *)
(* results, None, raised exceptions, and whether a value is a numpy value  *)
(* (numpy returns inf or nan where a Python float raises or turns          *)
(* complex).  Rounding is not modelled.                                    *)
(***************************************************************************)
EXTENDS Integers, Sequences, FiniteSets, TLC

VARIABLES models, heap, call, ret

vars == <<models, heap, call, ret>>

---------------------------------------------------------------------------
(* Values *)

\* The atom that stands for numpy's pi.
PI_ATOM == 0
\* The atom that stands for PDG.G_F, the Fermi coupling constant.
GF_ATOM == 1

Fin(np, s, e) == [k |-> "fin", np |-> np, s |-> s, e |-> e, x |-> "", v |-> <<>>]
NaN(np) == [k |-> "nan", np |-> np, s |-> 0, e |-> {}, x |-> "", v |-> <<>>]
Inf(np, s) == [k |-> "inf", np |-> np, s |-> s, e |-> {}, x |-> "", v |-> <<>>]
Cplx(np) == [k |-> "cplx", np |-> np, s |-> 0, e |-> {}, x |-> "", v |-> <<>>]
None == [k |-> "none", np |-> FALSE, s |-> 0, e |-> {}, x |-> "", v |-> <<>>]
Exc(name) == [k |-> "exc", np |-> FALSE, s |-> 0, e |-> {}, x |-> name, v |-> <<>>]
Arr(v) == [k |-> "arr", np |-> TRUE, s |-> 0, e |-> {}, x |-> "", v |-> v]

Sgn(n) == IF n > 0 THEN 1 ELSE IF n < 0 THEN -1 ELSE 0
Abs(n) == IF n < 0 THEN -n ELSE n
Min2(a, b) == IF a <= b THEN a ELSE b

\* Exponent maps: sets of <<atom, exponent in half units>>, no zero exponents.
Atoms(e) == {p[1] : p \in e}
Exp(e, a) == IF a \in Atoms(e) THEN (CHOOSE p \in e : p[1] = a)[2] ELSE 0
MulE(e1, e2) ==
  {<<a, Exp(e1, a) + Exp(e2, a)>> :
     a \in {b \in Atoms(e1) \cup Atoms(e2) : Exp(e1, b) + Exp(e2, b) # 0}}
ScaleE(e, n) == IF n = 0 THEN {} ELSE {<<p[1], p[2] * n>> : p \in e}
\* e * num / 2; defined when every product is even.
HalfE(e, num) ==
  {<<p[1], CHOOSE h \in -64..64 : 2 * h = p[2] * num>> : p \in e}
MinE(e1, e2) ==
  {<<a, Min2(Exp(e1, a), Exp(e2, a))>> :
     a \in {b \in Atoms(e1) \cup Atoms(e2) : Min2(Exp(e1, b), Exp(e2, b)) # 0}}

RECURSIVE IPow(_, _)
IPow(b, n) == IF n = 0 THEN 1 ELSE b * IPow(b, n - 1)

\* The positive integer an exponent map stands for; defined when every atom
\* is a prime with an even, positive exponent.
RECURSIVE IntOf(_)
IntOf(e) ==
  IF e = {} THEN 1
  ELSE LET p == CHOOSE q \in e : TRUE
           h == CHOOSE n \in 1..32 : 2 * n = p[2] /\ p[1] >= 2
       IN IPow(p[1], h) * IntOf(e \ {p})

SmallPrimes ==
  <<2, 3, 5, 7, 11, 13, 17, 19, 23, 29, 31, 37, 41, 43, 47, 53, 59, 61, 67,
    71, 73, 79, 83, 89, 97, 101, 103, 107, 109, 113>>

\* The factorisation of n >= 1 by trial division, from the i-th small prime.
RECURSIVE FactorFrom(_, _)
FactorFrom(n, i) ==
  IF n = 1 THEN {}
  ELSE IF i > Len(SmallPrimes)
       THEN {<<CHOOSE q \in {n} : q < 113 * 113, 2>>}
  ELSE LET p == SmallPrimes[i]
       IN IF p * p > n THEN {<<n, 2>>}
          ELSE IF n % p = 0 THEN MulE({<<p, 2>>}, FactorFrom(n \div p, i))
          ELSE FactorFrom(n, i + 1)

\* Python literals: the int n, and the float n / d.
PyInt(n) == Fin(FALSE, Sgn(n), IF n = 0 THEN {} ELSE FactorFrom(Abs(n), 1))
PyFloat(n, d) ==
  Fin(FALSE, Sgn(n),
      IF n = 0 THEN {}
      ELSE MulE(FactorFrom(Abs(n), 1), ScaleE(FactorFrom(d, 1), -1)))

\* The literals of BToD.py.
L0 == PyInt(0)
L1 == PyInt(1)
L2 == PyInt(2)
L4 == PyInt(4)
L8 == PyInt(8)
L10 == PyInt(10)
L48 == PyInt(48)
L51 == PyInt(51)
L84 == PyInt(84)
L252 == PyInt(252)
L1_0066 == PyFloat(10066, 10000)
L1_074 == PyFloat(1074, 1000)
L1_15 == PyFloat(115, 100)
L1_1213 == PyFloat(11213, 10000)

IsExc(a) == "k" \in DOMAIN a /\ a.k = "exc"
IsArr(a) == a.k = "arr"
\* Two scalars are the same number (a float and a float64 of one value are),
\* the same special value, or the same exception.
SameNum(a, b) == a.k = b.k /\ a.s = b.s /\ a.e = b.e /\ a.x = b.x
\* Two results are equal: scalars that are the same number, or arrays of one
\* length that are so entry by entry.
NumEq(a, b) ==
  /\ SameNum(a, b)
  /\ Len(a.v) = Len(b.v)
  /\ \A i \in 1..Len(a.v) : SameNum(a.v[i], b.v[i])
IsZero(a) == a.k = "fin" /\ a.s = 0

---------------------------------------------------------------------------
(* Arithmetic on scalars: Python's float and numpy's float64 operators.    *)
(* The operands are numbers (not None, not an exception, not an array).    *)

FinAdd(np, a, b) ==
  IF a.s = 0 THEN Fin(np, b.s, b.e)
  ELSE IF b.s = 0 THEN Fin(np, a.s, a.e)
  ELSE LET g == MinE(a.e, b.e)
           n == a.s * IntOf(MulE(a.e, ScaleE(g, -1)))
                + b.s * IntOf(MulE(b.e, ScaleE(g, -1)))
       IN IF n = 0 THEN Fin(np, 0, {})
          ELSE Fin(np, Sgn(n), MulE(g, FactorFrom(Abs(n), 1)))

SAdd(a, b) ==
  LET np == a.np \/ b.np
  IN IF a.k = "cplx" \/ b.k = "cplx" THEN Cplx(np)
     ELSE IF a.k = "nan" \/ b.k = "nan" THEN NaN(np)
     ELSE IF a.k = "inf" /\ b.k = "inf"
          THEN (IF a.s = b.s THEN Inf(np, a.s) ELSE NaN(np))
     ELSE IF a.k = "inf" THEN Inf(np, a.s)
     ELSE IF b.k = "inf" THEN Inf(np, b.s)
     ELSE FinAdd(np, a, b)

SNeg(a) == [a EXCEPT !.s = -a.s]

SMul(a, b) ==
  LET np == a.np \/ b.np
  IN IF a.k = "cplx" \/ b.k = "cplx" THEN Cplx(np)
     ELSE IF a.k = "nan" \/ b.k = "nan" THEN NaN(np)
     ELSE IF a.k = "inf" \/ b.k = "inf"
          THEN (IF a.s * b.s = 0 THEN NaN(np) ELSE Inf(np, a.s * b.s))
     ELSE IF a.s * b.s = 0 THEN Fin(np, 0, {})
     ELSE Fin(np, a.s * b.s, MulE(a.e, b.e))

\* A float divided by a float zero raises; numpy returns inf or nan.
SDiv(a, b) ==
  LET np == a.np \/ b.np
  IN IF IsZero(b) /\ ~np THEN Exc("ZeroDivisionError")
     ELSE IF a.k = "cplx" \/ b.k = "cplx" THEN Cplx(np)
     ELSE IF a.k = "nan" \/ b.k = "nan" THEN NaN(np)
     ELSE IF IsZero(b)
          THEN (IF a.s = 0 THEN NaN(np) ELSE Inf(np, a.s))
     ELSE IF b.k = "inf"
          THEN (IF a.k = "inf" THEN NaN(np) ELSE Fin(np, 0, {}))
     ELSE IF a.k = "inf" THEN Inf(np, a.s * b.s)
     ELSE IF a.s = 0 THEN Fin(np, 0, {})
     ELSE Fin(np, a.s * b.s, MulE(a.e, ScaleE(b.e, -1)))

\* a ** n for an int n.
SPowInt(a, n) ==
  LET sg == IF a.s < 0 /\ n % 2 = 1 THEN -1 ELSE 1
  IN IF a.k = "cplx" THEN a
     ELSE IF n = 0 THEN Fin(a.np, 1, {})
     ELSE IF a.k = "nan" THEN a
     ELSE IF a.k = "inf"
          THEN (IF n > 0 THEN Inf(a.np, sg) ELSE Fin(a.np, 0, {}))
     ELSE IF a.s = 0
          THEN (IF n > 0 THEN a
                ELSE IF a.np THEN Inf(TRUE, 1)
                ELSE Exc("ZeroDivisionError"))
     ELSE Fin(a.np, sg, ScaleE(a.e, n))

\* a ** (num / 2) for an odd num > 0: a negative float turns complex, a
\* negative float64 turns nan.
SPowHalf(a, num) ==
  IF a.k = "cplx" \/ a.k = "nan" THEN a
  ELSE IF a.k = "inf" THEN Inf(a.np, 1)
  ELSE IF a.s = 0 THEN a
  ELSE IF a.s < 0 THEN (IF a.np THEN NaN(TRUE) ELSE Cplx(FALSE))
  ELSE Fin(a.np, 1, HalfE(a.e, num))

\* numpy.sqrt of a scalar: always a float64, nan below zero.
SSqrt(a) ==
  IF a.k = "cplx" \/ a.k = "nan" THEN [a EXCEPT !.np = TRUE]
  ELSE IF a.k = "inf" THEN (IF a.s > 0 THEN Inf(TRUE, 1) ELSE NaN(TRUE))
  ELSE IF a.s < 0 THEN NaN(TRUE)
  ELSE Fin(TRUE, a.s, HalfE(a.e, 1))

---------------------------------------------------------------------------
(* The operators as the code applies them: an exception raised by an      *)
(* operand propagates (the left operand is evaluated first), None is no   *)
(* operand of arithmetic, and numpy applies an operator to an array        *)
(* element by element, broadcasting a scalar.                              *)

\* An operand's i-th entry, with every entry taken from the first.
At_first(a, i) == IF IsArr(a) THEN a.v[1] ELSE a
\* An operand's i-th entry: a scalar is broadcast.
At(a, i) == IF IsArr(a) THEN a.v[i] ELSE a
ALen(a, b) == IF IsArr(a) THEN Len(a.v) ELSE Len(b.v)

Add(a, b) ==
  IF IsExc(a) THEN a ELSE IF IsExc(b) THEN b
  ELSE IF a.k = "none" \/ b.k = "none" THEN Exc("TypeError")
  ELSE IF IsArr(a) \/ IsArr(b)
       THEN Arr([i \in 1..ALen(a, b) |-> SAdd(At(a, i), At(b, i))])
  ELSE SAdd(a, b)

Sub(a, b) ==
  IF IsExc(a) THEN a ELSE IF IsExc(b) THEN b
  ELSE IF a.k = "none" \/ b.k = "none" THEN Exc("TypeError")
  ELSE IF IsArr(a) \/ IsArr(b)
       THEN Arr([i \in 1..ALen(a, b) |-> SAdd(At(a, i), SNeg(At(b, i)))])
  ELSE SAdd(a, SNeg(b))

Mul(a, b) ==
  IF IsExc(a) THEN a ELSE IF IsExc(b) THEN b
  ELSE IF a.k = "none" \/ b.k = "none" THEN Exc("TypeError")
  ELSE IF IsArr(a) \/ IsArr(b)
       THEN Arr([i \in 1..ALen(a, b) |-> SMul(At(a, i), At(b, i))])
  ELSE SMul(a, b)

Div(a, b) ==
  IF IsExc(a) THEN a ELSE IF IsExc(b) THEN b
  ELSE IF a.k = "none" \/ b.k = "none" THEN Exc("TypeError")
  ELSE IF IsArr(a) \/ IsArr(b)
       THEN Arr([i \in 1..ALen(a, b) |-> SDiv(At(a, i), At(b, i))])
  ELSE SDiv(a, b)

Pow(a, n) ==
  IF IsExc(a) THEN a
  ELSE IF a.k = "none" THEN Exc("TypeError")
  ELSE IF IsArr(a) THEN Arr([i \in 1..Len(a.v) |-> SPowInt(a.v[i], n)])
  ELSE SPowInt(a, n)

PowHalf(a, num) ==
  IF IsExc(a) THEN a
  ELSE IF a.k = "none" THEN Exc("TypeError")
  ELSE IF IsArr(a) THEN Arr([i \in 1..Len(a.v) |-> SPowHalf(a.v[i], num)])
  ELSE SPowHalf(a, num)

np_sqrt(a) ==
  IF IsExc(a) THEN a
  ELSE IF a.k = "none" THEN Exc("TypeError")
  ELSE IF IsArr(a) THEN Arr([i \in 1..Len(a.v) |-> SSqrt(a.v[i])])
  ELSE SSqrt(a)

\* Python's sum(list): 0 + list[0] + list[1] + ...
RECURSIVE SumFrom(_, _, _)
SumFrom(acc, terms, i) ==
  IF i > Len(terms) THEN acc ELSE SumFrom(Add(acc, terms[i]), terms, i + 1)
sum(terms) == SumFrom(L0, terms, 1)

---------------------------------------------------------------------------
(* eFFORT.utility, which BToD.py imports                                   *)

\* PDG.G_F: a positive constant.
PDG_G_F == Fin(FALSE, 1, {<<GF_ATOM, 2>>})
\* numpy.pi
np_pi == Fin(FALSE, 1, {<<PI_ATOM, 2>>})

\* The conformal map of the recoil w to the expansion variable z:
\* (sqrt(w + 1) - sqrt(2)) / (sqrt(w + 1) + sqrt(2)).
z_var(w) ==
  Div(Sub(np_sqrt(Add(w, L1)), np_sqrt(L2)),
      Add(np_sqrt(Add(w, L1)), np_sqrt(L2)))

---------------------------------------------------------------------------
(* Objects.  heap holds the list objects; a BGL model's                    *)
(* expansion_coefficients is a reference into it.                          *)

\* An attribute the object's class does not set.
NoAttr == [k |-> "noattr", np |-> FALSE, s |-> 0, e |-> {}, x |-> "", v |-> <<>>]
\* An optional argument the caller did not pass.
Omitted == [k |-> "omitted", np |-> FALSE, s |-> 0, e |-> {}, x |-> "", v |-> <<>>]
\* A value that is a reference to the list object heap[n].
Ref(n) == [k |-> "ref", np |-> FALSE, s |-> n, e |-> {}, x |-> "", v |-> <<>>]
\* A value that is a reference to the object models[n].
Obj(n) == [k |-> "obj", np |-> FALSE, s |-> n, e |-> {}, x |-> "", v |-> <<>>]

\* BToD.__init__ with a check of the masses added.
BToD_init_validating(m_B, m_D, V_cb, eta_EW) ==
  IF m_B.s <= 0 \/ m_D.s <= 0 THEN Exc("ValueError")
  ELSE [cls |-> "BToD", m_B |-> m_B, m_D |-> m_D, V_cb |-> V_cb,
        eta_EW |-> IF eta_EW = Omitted THEN L1_0066 ELSE eta_EW,
        G_F |-> PDG_G_F, r |-> Div(m_D, m_B),
        G_1 |-> NoAttr, rho2 |-> NoAttr, expansion_coefficients |-> NoAttr]

\* BToD.__init__; the object, or the exception m_D / m_B raises.
BToD_init(m_B, m_D, V_cb, eta_EW) ==
  LET r == Div(m_D, m_B)
  IN IF IsExc(r) THEN r
     ELSE [cls |-> "BToD", m_B |-> m_B, m_D |-> m_D, V_cb |-> V_cb,
           eta_EW |-> IF eta_EW = Omitted THEN L1_0066 ELSE eta_EW,
           G_F |-> PDG_G_F, r |-> r,
           G_1 |-> NoAttr, rho2 |-> NoAttr, expansion_coefficients |-> NoAttr]

\* BToDCLN.__init__ with "cln_g1 or 1.074": a passed 0 gives the default.
BToDCLN_init_or(m_B, m_Dstar, V_cb, eta_EW, cln_g1, cln_rho2) ==
  LET super == BToD_init(m_B, m_Dstar, V_cb, eta_EW)
  IN IF IsExc(super) THEN super
     ELSE [super EXCEPT
             !.cls = "BToDCLN",
             !.G_1 = IF cln_g1 = None \/ IsZero(cln_g1) THEN L1_074 ELSE cln_g1,
             !.rho2 = IF cln_rho2 = None \/ IsZero(cln_rho2) THEN L1_15
                      ELSE cln_rho2]

\* BToDCLN.__init__
BToDCLN_init(m_B, m_Dstar, V_cb, eta_EW, cln_g1, cln_rho2) ==
  LET super == BToD_init(m_B, m_Dstar, V_cb, eta_EW)
  IN IF IsExc(super) THEN super
     ELSE [super EXCEPT
             !.cls = "BToDCLN",
             !.G_1 = IF cln_g1 = None THEN L1_074 ELSE cln_g1,
             !.rho2 = IF cln_rho2 = None THEN L1_15 ELSE cln_rho2]

\* The list a BToDBGL object keeps, with one list object shared by every
\* object constructed without a list (a mutable default argument).
BGL_coefficients_shared(bgl_fplus_coefficients, h) ==
  IF bgl_fplus_coefficients = None THEN Ref(1) ELSE bgl_fplus_coefficients

\* The list a BToDBGL object keeps: a new empty list object when no list
\* was passed, the passed list object otherwise.  h is the heap with the
\* caller's list, if any, on top.
BGL_coefficients_ref(bgl_fplus_coefficients, h) ==
  IF bgl_fplus_coefficients = None THEN Ref(Len(h) + 1)
  ELSE bgl_fplus_coefficients

\* BToDBGL.__init__
BToDBGL_init(m_B, m_Dstar, V_cb, eta_EW, bgl_fplus_coefficients, h) ==
  LET super == BToD_init(m_B, m_Dstar, V_cb, eta_EW)
  IN IF IsExc(super) THEN super
     ELSE [super EXCEPT
             !.cls = "BToDBGL",
             !.expansion_coefficients =
                BGL_coefficients_ref(bgl_fplus_coefficients, h)]

\* The heap after BToDBGL.__init__ returned: the evaluation of [] allocated.
BToDBGL_init_heap(bgl_fplus_coefficients, h) ==
  IF bgl_fplus_coefficients = None THEN Append(h, <<>>) ELSE h

\* BToD.G: the body is pass, and abc.abstractmethod has no effect on a class
\* whose metaclass is not ABCMeta: the call returns None.
BToD_G(self, w) == None

\* BToDCLN.G
BToDCLN_G(self, w) ==
  LET rho2 == self.rho2
      z == z_var(w)
  IN Pow(Mul(self.G_1,
             Sub(Add(Sub(L1, Mul(Mul(L8, rho2), z)),
                     Mul(Sub(Mul(L51, rho2), L10), Pow(z, 2))),
                 Mul(Sub(Mul(L252, rho2), L84), Pow(z, 3)))),
         2)

\* phi_plus with 2 * r where the code has 2 * np.sqrt(r).
phi_plus_2r(self, z) ==
  LET r == self.r
  IN Mul(Mul(Mul(L1_1213, Pow(Add(L1, z), 2)),
             PowHalf(Sub(L1, z), 1)),
         Pow(Add(Mul(Add(L1, r), Sub(L1, z)),
                 Mul(Mul(L2, r), Add(L1, z))),
             -5))

\* BToDBGL.phi_plus
phi_plus(self, z) ==
  LET r == self.r
  IN Mul(Mul(Mul(L1_1213, Pow(Add(L1, z), 2)),
             PowHalf(Sub(L1, z), 1)),
         Pow(Add(Mul(Add(L1, r), Sub(L1, z)),
                 Mul(Mul(L2, np_sqrt(r)), Add(L1, z))),
             -5))

\* A callable passed as an argument: lambda x: 1, or the bound method
\* self.phi_plus.
Lambda_one == [fn |-> "lambda x: 1", self |-> <<>>]
Bound_phi_plus(self) == [fn |-> "phi_plus", self |-> self]
Apply(f, x) == IF f.fn = "phi_plus" THEN phi_plus(f.self, x) ELSE L1

\* eFFORT.utility.BGL_form_factor: the series sum of a[n] * z ** n, divided
\* by the Blaschke factor times the outer function:
\* 1 / (p(z) * phi(z)) * sum([a_i * z ** n for n, a_i in enumerate(a)]).
BGL_form_factor(z, p, phi, a) ==
  Mul(Div(L1, Mul(Apply(p, z), Apply(phi, z))),
      sum([n \in 1..Len(a) |-> Mul(a[n], Pow(z, n - 1))]))

\* The list object a reference names.
Deref(ref) == heap[ref.s]

\* BToDBGL.G
BToDBGL_G(self, w) ==
  Mul(Div(Mul(L4, self.r), Pow(Add(L1, self.r), 2)),
      Pow(BGL_form_factor(z_var(w), Lambda_one, Bound_phi_plus(self),
                          Deref(self.expansion_coefficients)),
          2))

\* fplus with the prefactor of G.
fplus_with_prefactor(self, w) == BToDBGL_G(self, w)

\* BToDBGL.fplus
fplus(self, w) ==
  Pow(BGL_form_factor(z_var(w), Lambda_one, Bound_phi_plus(self),
                      Deref(self.expansion_coefficients)),
      2)

\* self.G(w) with the overrides ignored.
G_not_overridden(self, w) == BToD_G(self, w)

\* self.G(w): the method of the object's class.
G(self, w) ==
  IF self.cls = "BToDCLN" THEN BToDCLN_G(self, w)
  ELSE IF self.cls = "BToDBGL" THEN BToDBGL_G(self, w)
  ELSE BToD_G(self, w)

\* BToD.dGamma_dw with w ** 2 + 1 where the code has w ** 2 - 1.
dGamma_dw_plus1(self, w) ==
  LET m_B == self.m_B
      m_D == self.m_D
  IN Mul(Mul(Mul(Mul(Mul(Div(Div(Mul(Pow(self.G_F, 2), Pow(m_D, 3)),
                                 L48),
                             Pow(np_pi, 3)),
                         Pow(Add(m_B, m_D), 2)),
                     PowHalf(Add(Pow(w, 2), L1), 3)),
                 Pow(self.eta_EW, 2)),
             Pow(self.V_cb, 2)),
         G(self, w))

\* BToD.dGamma_dw
dGamma_dw(self, w) ==
  LET m_B == self.m_B
      m_D == self.m_D
  IN Mul(Mul(Mul(Mul(Mul(Div(Div(Mul(Pow(self.G_F, 2), Pow(m_D, 3)),
                                 L48),
                             Pow(np_pi, 3)),
                         Pow(Add(m_B, m_D), 2)),
                     PowHalf(Sub(Pow(w, 2), L1), 3)),
                 Pow(self.eta_EW, 2)),
             Pow(self.V_cb, 2)),
         G(self, w))

---------------------------------------------------------------------------
(* The client: it constructs models and calls their methods.               *)

MaxModels == 2
MaxArr == 2

\* Recoil values passed as Python floats: w = 1; w = 17/8, which is w_max
\* for the masses 4 and 1; w = 7 above it; and w = -1/2, -1, -3 below 1.
PyW == {PyInt(1), PyFloat(17, 8), PyInt(7), PyFloat(-1, 2), PyInt(-1), PyInt(-3)}
\* Recoil values that are numpy float64, as the entries of an array are.
NpW == {[w EXCEPT !.np = TRUE] : w \in {PyFloat(17, 8), PyFloat(-1, 2)}}
\* Arrays of recoil values.
RECURSIVE SeqsUpTo(_, _)
SeqsUpTo(S, n) ==
  IF n = 0 THEN {<<>>}
  ELSE LET T == SeqsUpTo(S, n - 1)
       IN T \cup {Append(t, x) : t \in {u \in T : Len(u) = n - 1}, x \in S}
ArrW == {Arr(v) : v \in SeqsUpTo(NpW, MaxArr)}
\* Values of z passed to phi_plus.
PyZ == {PyInt(0), PyFloat(1, 9), PyInt(-1)}

\* Constructor calls: <<m_B, m_D, V_cb, eta_EW>>, with masses that give
\* r = 1/4, r = -1/4, r = -1, r = 0, and m_B = 0.
BToDArgs ==
  {<<PyInt(4), PyInt(1), PyFloat(1, 25), Omitted>>,
   <<PyInt(0), PyInt(1), PyFloat(1, 25), Omitted>>}
\* <<m_B, m_Dstar, V_cb, eta_EW, cln_g1, cln_rho2>>
CLNArgs ==
  {<<PyInt(4), PyInt(1), PyFloat(1, 25), Omitted, None, None>>,
   <<PyInt(4), PyInt(1), PyFloat(1, 25), Omitted, None, PyInt(1)>>,
   <<PyInt(4), PyInt(1), PyFloat(1, 25), Omitted, PyInt(0), None>>,
   <<PyInt(1), PyInt(-1), PyInt(-1), PyInt(2), PyInt(2), PyInt(0)>>}
\* <<m_B, m_Dstar, V_cb, eta_EW, bgl_fplus_coefficients>>, the last None or
\* the list the caller builds.
BGLArgs ==
  {<<PyInt(4), PyInt(1), PyFloat(1, 25), Omitted, None>>,
   <<PyInt(4), PyInt(1), PyFloat(1, 25), Omitted, <<>> >>,
   <<PyInt(4), PyInt(1), PyFloat(1, 25), PyInt(2),
     <<PyFloat(1, 100), PyFloat(-1, 10)>> >>,
   <<PyInt(4), PyInt(-1), PyFloat(1, 25), Omitted, None>>,
   <<PyInt(1), PyInt(-1), PyInt(-1), Omitted, <<PyFloat(1, 100)>> >>,
   <<PyInt(1), PyInt(0), PyFloat(1, 25), Omitted, <<PyFloat(1, 100)>> >>,
   <<PyInt(0), PyInt(1), PyFloat(1, 25), Omitted, None>>}

NoCall == [op |-> "", self |-> 0, arg |-> None, args |-> <<>>]

Init ==
  /\ models = <<>>
  /\ heap = <<>>
  /\ call = NoCall
  /\ ret = None

\* The binding of a constructed object, or the exception that ended the
\* constructor call.
Bind(o) ==
  /\ models' = IF IsExc(o) THEN models ELSE Append(models, o)
  /\ ret' = IF IsExc(o) THEN o ELSE Obj(Len(models) + 1)

\* m = BToD(m_B, m_D, V_cb[, eta_EW])
New_BToD(a) ==
  /\ call = NoCall
  /\ Len(models) < MaxModels
  /\ Bind(BToD_init(a[1], a[2], a[3], a[4]))
  /\ heap' = heap
  /\ call' = [op |-> "BToD", self |-> 0, arg |-> None, args |-> a]

\* m = BToDCLN(m_B, m_Dstar, V_cb[, eta_EW][, cln_g1][, cln_rho2])
New_BToDCLN(a) ==
  /\ call = NoCall
  /\ Len(models) < MaxModels
  /\ Bind(BToDCLN_init(a[1], a[2], a[3], a[4], a[5], a[6]))
  /\ heap' = heap
  /\ call' = [op |-> "BToDCLN", self |-> 0, arg |-> None, args |-> a]

\* m = BToDBGL(m_B, m_Dstar, V_cb[, eta_EW][, bgl_fplus_coefficients]); a
\* list the caller passes is a list object the caller built for the call.
New_BToDBGL(a) ==
  /\ call = NoCall
  /\ Len(models) < MaxModels
  /\ LET h == IF a[5] = None THEN heap ELSE Append(heap, a[5])
         coefficients == IF a[5] = None THEN None ELSE Ref(Len(h))
         o == BToDBGL_init(a[1], a[2], a[3], a[4], coefficients, h)
     IN /\ Bind(o)
        /\ heap' = IF IsExc(o) THEN heap ELSE BToDBGL_init_heap(coefficients, h)
  /\ call' = [op |-> "BToDBGL", self |-> 0, arg |-> None, args |-> a]

\* models[i].G(w)
Call_G(i, w) ==
  /\ call = NoCall
  /\ ret' = G(models[i], w)
  /\ call' = [op |-> "G", self |-> i, arg |-> w, args |-> <<>>]
  /\ UNCHANGED <<models, heap>>

\* models[i].fplus(w), on a BToDBGL object: only BToDBGL defines fplus.
Call_fplus(i, w) ==
  /\ call = NoCall
  /\ models[i].cls = "BToDBGL"
  /\ ret' = fplus(models[i], w)
  /\ call' = [op |-> "fplus", self |-> i, arg |-> w, args |-> <<>>]
  /\ UNCHANGED <<models, heap>>

\* models[i].phi_plus(z), on a BToDBGL object: only BToDBGL defines phi_plus.
Call_phi_plus(i, z) ==
  /\ call = NoCall
  /\ models[i].cls = "BToDBGL"
  /\ ret' = phi_plus(models[i], z)
  /\ call' = [op |-> "phi_plus", self |-> i, arg |-> z, args |-> <<>>]
  /\ UNCHANGED <<models, heap>>

\* models[i].dGamma_dw(w) that stores abs(V_cb) in the object.
Call_dGamma_dw_abs(i, w) ==
  /\ call = NoCall
  /\ ret' = dGamma_dw(models[i], w)
  /\ call' = [op |-> "dGamma_dw", self |-> i, arg |-> w, args |-> <<>>]
  /\ models' = [models EXCEPT ![i].V_cb.s = Abs(@)]
  /\ heap' = heap

\* models[i].dGamma_dw(w), w a scalar or an array.
Call_dGamma_dw(i, w) ==
  /\ call = NoCall
  /\ ret' = dGamma_dw(models[i], w)
  /\ call' = [op |-> "dGamma_dw", self |-> i, arg |-> w, args |-> <<>>]
  /\ UNCHANGED <<models, heap>>

\* The client is done with the result of its last call and goes on.
Discard ==
  /\ call # NoCall
  /\ call' = NoCall
  /\ ret' = None
  /\ UNCHANGED <<models, heap>>

Next ==
  \/ \E a \in BToDArgs : New_BToD(a)
  \/ \E a \in CLNArgs : New_BToDCLN(a)
  \/ \E a \in BGLArgs : New_BToDBGL(a)
  \/ \E i \in 1..Len(models), w \in PyW : Call_G(i, w)
  \/ \E i \in 1..Len(models), w \in PyW : Call_fplus(i, w)
  \/ \E i \in 1..Len(models), z \in PyZ : Call_phi_plus(i, z)
  \/ \E i \in 1..Len(models), w \in PyW \cup NpW \cup ArrW : Call_dGamma_dw(i, w)
  \/ Discard

Spec == Init /\ [][Next]_vars

---------------------------------------------------------------------------
(* What the claims speak of *)

Methods == {"G", "fplus", "phi_plus", "dGamma_dw"}
Constructors == {"BToD", "BToDCLN", "BToDBGL"}
\* The object the last method call was made on.
Self == models[call.self]
IsVariant(m) == m.cls \in {"BToDCLN", "BToDBGL"}
\* The last call was method op on a CLN or BGL model.
OnVariant(op) == call.op = op /\ IsVariant(Self)
\* The last call was method op on a BGL model.
OnBGL(op) == call.op = op /\ Self.cls = "BToDBGL"
\* The last call was a constructor call that returned an object.
Constructed == call.op \in Constructors /\ ret.k = "obj"
IsScalar(w) == w.k = "fin"
\* w > -1, w >= 1, w = 1 for a scalar w
AboveMinusOne(w) == SAdd(w, L1).s > 0
AtLeastOne(w) == SAdd(w, SNeg(L1)).s >= 0
IsOne(w) == IsScalar(w) /\ SameNum(w, L1)
\* r = -1
IsMinusOne(r) == SameNum(r, SNeg(L1))

---------------------------------------------------------------------------
(* C1 *)

\* C1 (as claimed): G called on a base-model instance signals an error for
\* every w and never returns a value; so does dGamma_dw on a base model.
C1_BaseG_Raises ==
  (call.op \in {"G", "dGamma_dw"} /\ Self.cls = "BToD") => IsExc(ret)

---------------------------------------------------------------------------
(* C2 *)

\* C2 (as claimed): for every BGL model, phi_plus(0) equals 1.1213 whatever
\* the mass ratio r is.
C2_PhiPlusAtZero_Is_1_1213 ==
  (OnBGL("phi_plus") /\ IsZero(call.arg)) => NumEq(ret, L1_1213)

\* C2 (amended): for every BGL model, phi_plus(0) equals
\* 1.1213 * ((1 + r) + 2 * sqrt(r)) ** -5, which depends on r; it is
\* 1.1213 when r = 0.
C2_PhiPlusAtZero ==
  (OnBGL("phi_plus") /\ IsZero(call.arg)) =>
     /\ NumEq(ret, Mul(L1_1213,
                       Pow(Add(Add(L1, Self.r), Mul(L2, np_sqrt(Self.r))), -5)))
     /\ IsZero(Self.r) => NumEq(ret, L1_1213)

\* phi_plus(0) was computed for a mass ratio r > 0 and is not 1.1213.
C2_Witness ==
  /\ OnBGL("phi_plus") /\ IsZero(call.arg)
  /\ Self.r.s > 0 /\ ret.k = "fin" /\ ~NumEq(ret, L1_1213)

---------------------------------------------------------------------------
(* C3 *)

\* C3 (as claimed): for every variant and every choice of constructor
\* parameters, dGamma_dw(1) is exactly 0.
C3_ZeroAtW1_Always ==
  (OnVariant("dGamma_dw") /\ IsOne(call.arg)) => IsZero(ret)

\* C3 (amended): for every CLN model, and every BGL model with r >= 0,
\* G(1) is a finite number and dGamma_dw(1) is exactly 0 whatever that number
\* is; for a BGL model with r < 0, G(1) is nan or raises, and dGamma_dw(1)
\* is nan or raises the same exception.
C3_ZeroAtW1 ==
  (OnVariant("dGamma_dw") /\ IsOne(call.arg)) =>
     LET g == G(Self, call.arg)
     IN /\ (Self.cls = "BToDCLN" \/ Self.r.s >= 0) => g.k = "fin"
        /\ g.k = "fin" => IsZero(ret)
        /\ g.k # "fin" => (g.k \in {"nan", "exc"} /\ SameNum(ret, g))

\* dGamma_dw(1) returned 0 on a model whose G(1) is not 0.
C3_Witness ==
  /\ OnVariant("dGamma_dw") /\ IsOne(call.arg) /\ IsZero(ret)
  /\ G(Self, call.arg).k = "fin" /\ ~IsZero(G(Self, call.arg))

---------------------------------------------------------------------------
(* C4 *)

\* The factor of the rate that depends on the object's fields only.
RateConstant(m) ==
  Mul(Mul(Mul(Div(Mul(Pow(m.G_F, 2), Pow(m.m_D, 3)),
                  Mul(L48, Pow(np_pi, 3))),
              Pow(Add(m.m_B, m.m_D), 2)),
          Pow(m.eta_EW, 2)),
      Pow(m.V_cb, 2))
\* The factor of the rate that depends on w only: (w^2 - 1)^(3/2).
Kinematic(w) == PowHalf(Sub(Mul(w, w), L1), 3)
\* The squared form factor of the model's own class.
OwnG(m, w) ==
  IF m.cls = "BToDCLN" THEN BToDCLN_G(m, w) ELSE BToDBGL_G(m, w)

\* C4: for every CLN or BGL model and every w (scalar or array),
\* dGamma_dw(w) = G_F^2 m_D^3 / (48 pi^3) (m_B + m_D)^2 (w^2 - 1)^(3/2)
\* eta_EW^2 V_cb^2 G(w) with G the form factor of the model's own class: a
\* constant of the fields times a factor of w times G(w); and eta_EW is
\* 1.0066 when the constructor call does not pass it, the passed value
\* otherwise.
C4_RateFormula ==
  /\ OnVariant("dGamma_dw") =>
       NumEq(ret, Mul(Mul(RateConstant(Self), Kinematic(call.arg)),
                      OwnG(Self, call.arg)))
  /\ Constructed =>
       models[ret.s].eta_EW =
         (IF call.args[4] = Omitted THEN L1_0066 ELSE call.args[4])

\* dGamma_dw returned a finite rate that is not 0 on a model constructed
\* without eta_EW.
C4_Witness ==
  /\ OnVariant("dGamma_dw") /\ ret.k = "fin" /\ ret.s # 0
  /\ Self.eta_EW = L1_0066

---------------------------------------------------------------------------
(* C5 *)

\* C5: for every BGL model and every w, fplus(w) is the square of
\* BGL_form_factor(z_var(w), lambda x: 1, phi_plus, coefficients) with no
\* prefactor, and G(w) = 4 r / (1 + r)^2 * fplus(w).
C5_G_Is_Prefactor_Times_fplus ==
  /\ OnBGL("fplus") =>
       LET f == BGL_form_factor(z_var(call.arg), Lambda_one,
                                Bound_phi_plus(Self),
                                Deref(Self.expansion_coefficients))
       IN NumEq(ret, Mul(f, f))
  /\ OnBGL("G") =>
       NumEq(ret, Mul(Div(Mul(L4, Self.r), Mul(Add(L1, Self.r), Add(L1, Self.r))),
                      fplus(Self, call.arg)))

\* G returned a finite value that is not 0 and differs from fplus(w).
C5_Witness ==
  /\ OnBGL("G") /\ ret.k = "fin" /\ ret.s # 0
  /\ ~NumEq(ret, fplus(Self, call.arg))

---------------------------------------------------------------------------
(* C6 *)

\* A BGL model whose coefficient list is empty.
EmptyBGL(m) == m.cls = "BToDBGL" /\ Deref(m.expansion_coefficients) = <<>>

---------------------------------------------------------------------------
(* C7 *)

\* C7: for a CLN model, G(1) = G_1^2 for every G_1 and whatever rho2 is; a
\* model constructed without cln_g1 and cln_rho2 has G_1 = 1.074 and
\* rho2 = 1.15, and a passed value, 0 included, is the value used.
C7_CLN_AtW1 ==
  /\ (call.op = "G" /\ Self.cls = "BToDCLN" /\ IsOne(call.arg)) =>
        NumEq(ret, Mul(Self.G_1, Self.G_1))
  /\ (Constructed /\ call.op = "BToDCLN") =>
        /\ models[ret.s].G_1 =
             (IF call.args[5] = None THEN L1_074 ELSE call.args[5])
        /\ models[ret.s].rho2 =
             (IF call.args[6] = None THEN L1_15 ELSE call.args[6])
        /\ (call.args[5] = None /\ call.args[6] = None) =>
             NumEq(G(models[ret.s], L1), Mul(L1_074, L1_074))

\* G(1) returned 1.074^2 on a CLN model with the default G_1 and a passed
\* rho2 that is not the default.
C7_Witness ==
  /\ call.op = "G" /\ Self.cls = "BToDCLN" /\ IsOne(call.arg)
  /\ Self.G_1 = L1_074 /\ Self.rho2 # L1_15
  /\ NumEq(ret, Mul(L1_074, L1_074))

---------------------------------------------------------------------------
(* C8 *)

---------------------------------------------------------------------------
(* C9 *)

\* What a method returns, from the object's fields, the list its
\* expansion_coefficients refers to, and the argument.
MethodValue(op, m, a) ==
  IF op = "G" THEN OwnG(m, a)
  ELSE IF op = "fplus"
       THEN LET f == BGL_form_factor(z_var(a), Lambda_one, Bound_phi_plus(m),
                                     Deref(m.expansion_coefficients))
            IN Mul(f, f)
  ELSE IF op = "phi_plus" THEN phi_plus(m, a)
  ELSE Mul(Mul(RateConstant(m), Kinematic(a)), OwnG(m, a))

\* C9: no call of G, fplus, phi_plus or dGamma_dw changes a field of any
\* model or a coefficient list; r stays m_D / m_B; and what a call returns
\* is determined by the fields and the argument, so that two calls of one
\* operation with one w return the same value whatever was called between.
C9_NoMutation ==
  /\ [][call'.op \in Methods => (models' = models /\ heap' = heap)]_vars
  /\ [](\A i \in 1..Len(models) :
          models[i].r = Div(models[i].m_D, models[i].m_B))
  /\ []((call.op \in Methods /\ IsVariant(Self)) =>
          NumEq(ret, MethodValue(call.op, Self, call.arg)))

\* A method returned a finite value that is not 0 on the second of two
\* models.
C9_Witness ==
  /\ call.op \in Methods /\ call.self = 2 /\ Len(models) = 2
  /\ ret.k = "fin" /\ ret.s # 0

---------------------------------------------------------------------------
(* C10 *)

=============================================================================
